---- MODULE Spec2Model ----
(***************************************************************************)
(* CodeSage (shubhamparamhans/CodeSage): the incremental indexing pipeline *)
(* of main.go -- parseDirectory, the MD5 change detector over the SQLite   *)
(* file_hashes table, per-file documentation generation, the destructive   *)
(* rebuild of the chromem vector store, and reindexCodebase.               *)
(*                                                                         *)
(* A path is a sequence of tokens: "/" is the separator, "." starts an     *)
(* extension, every other token is an atomic piece of a name.  String      *)
(* operations of the code (strings.Contains, filepath.Base, filepath.Ext,  *)
(* filepath.Rel, filepath.Join) are computed on these sequences.           *)
(***************************************************************************)
EXTENDS Integers, Sequences, FiniteSets, TLC

\* ------------------------------------------------------------------ bounds
MaxRuns == 2        \* index / reindex runs started in one behaviour
MaxEvents == 1      \* events of the environment in one behaviour: ticks, edits of source
                    \* files by other processes, injected errors, crashes

\* ------------------------------------------------------- strings and paths
SEP == "/"
DOT == "."

\* sort.Strings order of the tokens (byte order: '.' < '/' < letters)
TokenOrder == <<".", "/", "a", "build", "d", "git", "go", "md", "n", "r", "x", "y">>

Rank(t) == CHOOSE i \in 1..Len(TokenOrder) : TokenOrder[i] = t

\* strings.Contains(s, sub)
Contains(s, sub) ==
    \E i \in 1..(Len(s) + 1) :
        /\ i + Len(sub) - 1 <= Len(s)
        /\ SubSeq(s, i, i + Len(sub) - 1) = sub

\* index of the last occurrence of token t in s, 0 if none
LastIndex(s, t) ==
    IF \E i \in 1..Len(s) : s[i] = t
    THEN CHOOSE i \in 1..Len(s) : s[i] = t /\ \A j \in (i+1)..Len(s) : s[j] # t
    ELSE 0

\* filepath.Base(path)
Base(p) == SubSeq(p, LastIndex(p, SEP) + 1, Len(p))

\* filepath.Dir(path)
Dir(p) == SubSeq(p, 1, LastIndex(p, SEP) - 1)

\* filepath.Ext(path): the suffix of the last element from its final dot
Ext(p) ==
    LET b == Base(p)
        k == LastIndex(b, DOT)
    IN  IF k = 0 THEN <<>> ELSE SubSeq(b, k, Len(b))

\* filepath.Join of two elements; an empty element is ignored
Join(a, b) ==
    IF a = <<>> THEN b
    ELSE IF b = <<>> THEN a
    ELSE a \o <<SEP>> \o b

\* strings.HasPrefix(s, pre)
HasPrefix(s, pre) == Len(pre) <= Len(s) /\ SubSeq(s, 1, Len(pre)) = pre

\* filepath.Rel(base, target) for a target found below base by the walk
Rel(base, target) == SubSeq(target, Len(base) + 2, Len(target))

\* string order of two names (sequences of tokens)
RECURSIVE NameLess(_, _)
NameLess(a, b) ==
    IF a = <<>> THEN b # <<>>
    ELSE IF b = <<>> THEN FALSE
    ELSE IF Head(a) = Head(b) THEN NameLess(Tail(a), Tail(b))
    ELSE Rank(Head(a)) < Rank(Head(b))

\* a set of paths of one directory as the sequence sorted by base name
RECURSIVE SortByName(_)
SortByName(S) ==
    IF S = {} THEN <<>>
    ELSE LET m == CHOOSE x \in S : \A y \in S \ {x} : NameLess(Base(x), Base(y))
         IN  <<m>> \o SortByName(S \ {m})

\* ------------------------------------------------------------ parseDirectory
\* the extension allow-list of parseDirectory (those the model's trees use come
\* first; every entry of the source is listed)
AllowedExt ==
    { <<DOT, "go">>, <<DOT, "py">>, <<DOT, "js">>, <<DOT, "ts">>, <<DOT, "java">>,
      <<DOT, "cpp">>, <<DOT, "c">>, <<DOT, "vue">>, <<DOT, "jsx">>, <<DOT, "tsx">> }

\* a variant of the loop over excludeDirs that tests the directory's own name
DirExcludedByBase(p, excludeDirs) ==
    \E k \in 1..Len(excludeDirs) : Contains(Base(p), excludeDirs[k])

\* the loop over excludeDirs in the walk callback: some entry is a substring of path
DirExcluded(p, excludeDirs) ==
    \E k \in 1..Len(excludeDirs) : Contains(p, excludeDirs[k])

\* the loop over excludeFiles in the walk callback: the base name equals an entry
FileExcluded(p, excludeFiles) ==
    \E k \in 1..Len(excludeFiles) : Base(p) = excludeFiles[k]

\* the callback's decision for a file: appended to files or not
FileKept(p, excludeFiles) ==
    /\ ~FileExcluded(p, excludeFiles)
    /\ Ext(p) \in AllowedExt

\* the directories a set of file paths implies below (and including) root
RECURSIVE Ancestors(_)
Ancestors(p) == IF LastIndex(p, SEP) <= 1 THEN {} ELSE {Dir(p)} \cup Ancestors(Dir(p))

DirsOf(tree) == UNION { Ancestors(f) : f \in tree }

\* filepath.Walk below directory d in lexical order, with the callback of
\* parseDirectory: SkipDir for an excluded directory, append for a kept file
RECURSIVE WalkDir(_, _, _, _)
WalkDir(tree, d, excludeDirs, excludeFiles) ==
    IF DirExcluded(d, excludeDirs) THEN <<>>
    ELSE LET kids == SortByName({ p \in tree \cup DirsOf(tree) : Dir(p) = d })
             Visit[i \in 0..Len(kids)] ==
                 IF i = 0 THEN <<>>
                 ELSE Visit[i-1] \o
                      ( IF kids[i] \in DirsOf(tree)
                        THEN WalkDir(tree, kids[i], excludeDirs, excludeFiles)
                        ELSE IF FileKept(kids[i], excludeFiles) THEN <<kids[i]>> ELSE <<>> )
         IN  Visit[Len(kids)]

\* os.Lstat(root) succeeds: root is a directory of the tree
RootExists(tree, root) == root \in DirsOf(tree)

\* parseDirectory(directoryPath, excludeDirs, excludeFiles) without I/O error:
\* the files in traversal order; err is set when the root cannot be stat'ed
parseDirectory(tree, directoryPath, excludeDirs, excludeFiles) ==
    IF RootExists(tree, directoryPath)
    THEN [files |-> WalkDir(tree, directoryPath, excludeDirs, excludeFiles), err |-> FALSE]
    ELSE [files |-> <<>>, err |-> TRUE]

\* ------------------------------------------------------------- the universe
\* contents (byte strings) a source file can have
Contents == {1, 2}

\* project roots and source files of the modelled machine
RootA == <<SEP, "a">>
FileAX == <<SEP, "a", SEP, "x", DOT, "go">>
FileAY == <<SEP, "a", SEP, "y", DOT, "go">>
SourceFiles == {FileAX, FileAY}

\* a file of a project with another root, indexed in an earlier session
RootB == <<SEP, "b">>
FileBZ == <<SEP, "b", SEP, "z", DOT, "go">>

\* project names; "" is the name of the zero-value ProjectConfig
Projects == {"p", "q"}
ProjectNames == Projects \cup {""}

\* answers a user can give to getProjectDetails: name, path, excludes
ProjectInputs ==
    { [name |-> "p", path |-> RootA, exclude |-> <<>>, excludeFiles |-> <<>>],
      [name |-> "q", path |-> RootA, exclude |-> <<>>,
       excludeFiles |-> << <<"y", DOT, "go">> >>],
      [name |-> "p", path |-> RootA, exclude |-> <<>>,
       excludeFiles |-> << <<"y", DOT, "go">> >>] }

\* defaultExcludes of indexCodebase
defaultExcludes ==
    << <<SEP, "node_modules">>, <<SEP, "venv">>, <<SEP, "build">>, <<SEP, "dist">>,
       <<SEP, DOT, "venv">>, <<SEP, "log">>,
       <<SEP, "node_modules", SEP>>, <<SEP, "venv", SEP>>, <<SEP, "build", SEP>>,
       <<SEP, "dist", SEP>>, <<SEP, DOT, "venv", SEP>>, <<SEP, "log", SEP>>,
       <<SEP, DOT, "vite", SEP>>, <<SEP, DOT, "git", SEP>> >>

\* the zero value of ProjectConfig
EmptyConfig ==
    [ ProjectName |-> "", ProjectPath |-> <<>>, ExcludeFolders |-> <<>>,
      ExcludeFiles |-> <<>>, TotalIndexedFiles |-> 0, TotalFailedFiles |-> 0 ]

\* no row in file_hashes
NoHash == 0

\* a digest that maps every content to the same value
MD5Colliding(content) == 100

\* calculateMD5Hash on a readable file: the digest of its bytes, distinct
\* contents having distinct digests
MD5(content) == 100 + content

\* generateComments on success: the documentation text the model returns for code
LLM(c) == 10 + c

\* the artifact text indexCodebase writes: "File: <relPath>\n" + comments
Artifact(relPath, text) == [header |-> relPath, body |-> text]

\* a WriteFile whose bytes never reach the docs directory
WriteFileLost(projectDocs, relPath, text) == projectDocs

\* ioutil.WriteFile(docPath, ...) on the artifact files of one project
WriteFile(projectDocs, relPath, text) ==
    { a \in projectDocs : a.rel # relPath } \cup
    { [rel |-> relPath, content |-> Artifact(relPath, text)] }

\* the chromem.Document createVectorStore builds from one artifact file
Document(a, codebasePath) ==
    [ID |-> a.rel, Content |-> a.content, file_path |-> Join(codebasePath, a.rel)]

\* the SQL pattern "DELETE FROM file_hashes WHERE file_path LIKE ?" of
\* reindexCodebase, with filepath.Join(ProjectPath, "%") as the pattern
LikeJoinPercent(filePath, projectPath) ==
    IF projectPath = <<>> THEN TRUE
    ELSE HasPrefix(filePath, projectPath \o <<SEP>>)

VARIABLES
    fsys,            \* source tree: file path -> content
    hashDB,          \* table file_hashes: file path -> hash, NoHash if no row
    docs,            \* artifact files: project name -> set of [rel, content]
    docDirs,         \* project names whose directory exists under DocsDir
    cfgDoc,          \* project_config.json: project name -> <<>> or <<config>>
    vectorDB,        \* chromem collections: project name -> <<>> or <<set of documents>>
    projectConfig,   \* ca.projectConfig
    pc,              \* position of indexCodebase
    ret,             \* what the last call returned: "none", "nil", "err", "crash"
    reindexProject,                                \* parameter of indexCodebase
    projectName, path, exclude, excludeFiles,      \* locals of indexCodebase
    files, idx, currentHash, code, comments,
    processedFiles, failedFiles, updatedFiles,
    documents, docIdx,                             \* locals of createVectorStore
    genCalls,        \* this run: [file, code] of every call of generateComments
    genFailed,       \* this run: files whose generateComments call returned an error
    seen,            \* this run: file -> content that calculateMD5Hash hashed, 0 if none
    hashWrites,      \* this run: files whose row setFileHash wrote
    rebuilds,        \* this run: times the vector store was removed and recreated
    modified,        \* this run: files classified New or Modified
    hash0,           \* hashDB as it was when this run started
    prev,            \* the previous run: project, path, completed, failed
    dirty,           \* a source file or hash row was changed from outside since this run started
    prevDirty,       \* ... between the start of the previous run and the start of this one
    retry,           \* files whose last attempt ended without a hash commit, content unchanged since
    written,         \* this run: files whose artifact file was written
    fileErrors,      \* this run: files whose iteration ended in a per-file error
    taskStarted,     \* this run: the autosave goroutine was started
    tasks,           \* autosave goroutines of this process that have not terminated
    pending,         \* <<>> or <<config>>: the record an autosave goroutine is about to save
    endRecord,       \* this run: <<>> or <<config>>, the record the save after the loop wrote
    srRet,           \* the last searchCodebase: "none", "ok", "err", "panic"
    srObs,           \* ... what it found: "none", "absent", "empty", "partial", "full"
    srAt,            \* ... the position of indexCodebase when it ran
    nRuns, nEvents,
    \* one call of parseDirectory: tree, arguments, results
    pdTree, pdRoot, pdExcludeDirs, pdExcludeFiles, pdFiles, pdRet,
    useFallback, gpu, cpu, thPc, thRet, thIdx, thProcessed,
    fileElapsed, totalElapsed, sinceCoolDown, thSleeps, thDecisions, cdReadings, cdReport,
    sensorsErr, ollamaHost, hw, cdStale, thPost

storeVars == <<hashDB, docs, docDirs, cfgDoc, vectorDB>>
localVars == <<reindexProject, projectName, path, exclude, excludeFiles, files, idx, currentHash,
               code, comments, processedFiles, failedFiles, updatedFiles,
               documents, docIdx>>
obsVars == <<genCalls, genFailed, seen, hashWrites, rebuilds, modified, hash0, prev, dirty, prevDirty, retry>>
pdVars == <<pdTree, pdRoot, pdExcludeDirs, pdExcludeFiles, pdFiles, pdRet>>
counters == <<nRuns, nEvents>>
srVars == <<srRet, srObs, srAt>>
auxVars == <<written, fileErrors, taskStarted, tasks, pending, endRecord>>
thVars == <<useFallback, gpu, cpu, thPc, thRet, thIdx, thProcessed,
           fileElapsed, totalElapsed, sinceCoolDown, thSleeps, thDecisions, cdReadings, cdReport,
           sensorsErr, ollamaHost, hw, cdStale, thPost>>
vars == <<fsys, storeVars, projectConfig, pc, ret, localVars, obsVars, counters, pdVars,
          auxVars, srVars, thVars>>

\* the source tree as parseDirectory sees it
Tree == SourceFiles

\* loadProjectConfig(projectName): the zero value when the file does not exist
loadProjectConfig(name) ==
    IF cfgDoc[name] = <<>> THEN EmptyConfig ELSE cfgDoc[name][1]

\* getFileHash(filePath): (hash, found)
getFileHash(filePath) ==
    [hash |-> hashDB[filePath], found |-> hashDB[filePath] # NoHash]

\* the test without the comparison of the hashes
UnchangedFound(old, hash) == old.found

\* the test "found && oldHash == currentHash" of indexCodebase
Unchanged(old, hash) == old.found /\ old.hash = hash

\* the disk before anything was indexed
FreshStores ==
    /\ fsys = [f \in SourceFiles |-> 1]
    /\ hashDB = [f \in SourceFiles |-> NoHash]
    /\ docs = [n \in Projects |-> {}]
    /\ docDirs = {}
    /\ cfgDoc = [n \in ProjectNames |-> <<>>]
    /\ vectorDB = [n \in Projects |-> <<>>]

\* the CodeAssistant NewCodeAssistant returns, with no run started
SessionInit ==
    /\ projectConfig = EmptyConfig
    /\ pc = "idle"
    /\ ret = "none"
    /\ reindexProject = ""
    /\ projectName = "" /\ path = <<>> /\ exclude = <<>> /\ excludeFiles = <<>>
    /\ files = <<>> /\ idx = 1 /\ currentHash = NoHash /\ code = 0 /\ comments = 0
    /\ processedFiles = 0 /\ failedFiles = 0 /\ updatedFiles = 0
    /\ documents = <<>> /\ docIdx = 1
    /\ genCalls = {} /\ genFailed = {} /\ hashWrites = {} /\ rebuilds = 0 /\ modified = {}
    /\ seen = [f \in SourceFiles |-> 0]
    /\ hash0 = hashDB
    /\ prev = [project |-> "", path |-> <<>>, completed |-> FALSE, failed |-> 0,
               rebuildFailed |-> FALSE, excludeFiles |-> <<>>]
    /\ dirty = FALSE /\ prevDirty = FALSE
    /\ retry = {}
    /\ written = {} /\ fileErrors = {} /\ taskStarted = FALSE /\ tasks = 0 /\ pending = <<>>
    /\ endRecord = <<>>
    /\ srRet = "none" /\ srObs = "none" /\ srAt = "none"
    /\ nRuns = 0 /\ nEvents = 0

MainInit == FreshStores /\ SessionInit

PdIdle ==
    /\ pdTree = {} /\ pdRoot = <<>> /\ pdExcludeDirs = <<>> /\ pdExcludeFiles = <<>>
    /\ pdFiles = <<>> /\ pdRet = "none"

\* no Thermal Guard under observation
ThIdle ==
    /\ useFallback = TRUE /\ gpu = 0 /\ cpu = 0
    /\ thPc = "off" /\ thRet = "off" /\ thIdx = 0 /\ thProcessed = 0
    /\ fileElapsed = 0 /\ totalElapsed = 0 /\ sinceCoolDown = 0
    /\ thSleeps = {} /\ thDecisions = {} /\ cdReadings = <<>> /\ cdReport = "none"
    /\ sensorsErr = TRUE /\ ollamaHost = <<>> /\ hw = 0 /\ cdStale = FALSE /\ thPost = <<>>

Init == MainInit /\ PdIdle /\ ThIdle

\* ------------------------------------------------------------ indexCodebase
\* the file of the current loop iteration
file == files[idx]

\* relPath and the artifact's place below projectDocsDir
relPath == Rel(path, file)

\* an error of the environment is injected
InjectFault == nEvents < MaxEvents /\ nEvents' = nEvents + 1

\* observation of a run that starts: the previous run's summary, fresh counters
StartObservation ==
    /\ prev' = [project |-> projectName, path |-> path,
                completed |-> (ret = "nil"), failed |-> failedFiles,
                rebuildFailed |-> (ret = "err" /\ rebuilds = 1),
                excludeFiles |-> excludeFiles]
    /\ prevDirty' = dirty
    /\ dirty' = FALSE
    /\ genCalls' = {} /\ genFailed' = {} /\ hashWrites' = {} /\ rebuilds' = 0 /\ modified' = {}
    /\ seen' = [f \in SourceFiles |-> 0]
    /\ written' = {} /\ fileErrors' = {} /\ endRecord' = <<>>
    /\ hash0' = hashDB
    /\ UNCHANGED retry

\* runCLI choice 1 / indexHandler: indexCodebase("")
CallIndex ==
    /\ pc = "idle"
    /\ nRuns < MaxRuns
    /\ nRuns' = nRuns + 1
    /\ reindexProject' = ""
    /\ pc' = "entry"
    /\ UNCHANGED <<fsys, storeVars, projectConfig, ret, projectName, path, exclude,
                   excludeFiles, files, idx, currentHash, code, comments, processedFiles,
                   failedFiles, updatedFiles, documents, docIdx, obsVars, nEvents, pdVars, thVars, srVars, auxVars>>

\* listProjects(DocsDir): the directories below DocsDir
listProjects == docDirs \cap Projects

\* reindexCodebase: the user selects a project and answers the confirmation;
\* on "y" the project's directory is removed and the hash rows below
\* ca.projectConfig.ProjectPath are deleted; then indexCodebase(selectedProject)
reindexCodebase(selectedProject, confirm) ==
    /\ pc = "idle"
    /\ nRuns < MaxRuns
    /\ selectedProject \in listProjects
    /\ nRuns' = nRuns + 1
    /\ IF confirm
       THEN /\ docs' = [docs EXCEPT ![selectedProject] = {}]
            /\ cfgDoc' = [cfgDoc EXCEPT ![selectedProject] = <<>>]
            /\ docDirs' = docDirs \ {selectedProject}
            /\ hashDB' = [f \in DOMAIN hashDB |->
                            IF LikeJoinPercent(f, projectConfig.ProjectPath)
                            THEN NoHash ELSE hashDB[f]]
            /\ dirty' = TRUE
       ELSE UNCHANGED <<docs, cfgDoc, docDirs, hashDB, dirty>>
    /\ reindexProject' = selectedProject
    /\ pc' = "entry"
    /\ UNCHANGED <<fsys, vectorDB, projectConfig, ret, projectName, path, exclude,
                   excludeFiles, files, idx, currentHash, code, comments, processedFiles,
                   failedFiles, updatedFiles, documents, docIdx, genCalls, genFailed, seen, hashWrites,
                   rebuilds, modified, hash0, prev, prevDirty, retry, nEvents, pdVars, thVars, srVars, auxVars>>

\* the project details indexCodebase works with: the stored configuration of
\* reindexProject, or the answers of getProjectDetails
Details(input) ==
    IF reindexProject # ""
    THEN LET c == loadProjectConfig(reindexProject)
         IN  [name |-> c.ProjectName, path |-> c.ProjectPath,
              exclude |-> c.ExcludeFolders, excludeFiles |-> c.ExcludeFiles]
    ELSE input

\* indexCodebase up to the loop: details, default excludes, parseDirectory,
\* counters, the second loadProjectConfig
IndexEntry(input) ==
    LET d == Details(input)
        ex == d.exclude \o defaultExcludes
        r == parseDirectory(Tree, d.path, ex, d.excludeFiles)
    IN  /\ pc = "entry"
        /\ ~r.err
        /\ projectName' = d.name /\ path' = d.path
        /\ exclude' = ex /\ excludeFiles' = d.excludeFiles
        /\ files' = r.files
        /\ processedFiles' = 0 /\ failedFiles' = 0 /\ updatedFiles' = 0
        /\ projectConfig' = loadProjectConfig(reindexProject)
        /\ idx' = 1
        /\ pc' = "loop"
        /\ ret' = "none"
        /\ StartObservation
        /\ taskStarted' = TRUE /\ tasks' = tasks + 1
        /\ UNCHANGED <<fsys, storeVars, reindexProject, currentHash, code, comments,
                       documents, docIdx, nRuns, nEvents, pdVars, thVars, srVars, pending>>

\* an indexCodebase that starts saveTicker and its goroutine before parseDirectory
IndexEntryErrorLate(input) ==
    LET d == Details(input)
        r == parseDirectory(Tree, d.path, d.exclude \o defaultExcludes, d.excludeFiles)
    IN  /\ pc = "entry"
        /\ IF r.err THEN UNCHANGED nEvents ELSE InjectFault
        /\ projectName' = d.name /\ path' = d.path
        /\ exclude' = d.exclude \o defaultExcludes /\ excludeFiles' = d.excludeFiles
        /\ files' = <<>>
        /\ processedFiles' = 0 /\ failedFiles' = 0 /\ updatedFiles' = 0
        /\ projectConfig' = IF reindexProject # "" THEN loadProjectConfig(reindexProject)
                            ELSE projectConfig
        /\ idx' = 1
        /\ pc' = "idle"
        /\ ret' = "err"
        /\ StartObservation
        /\ taskStarted' = TRUE /\ tasks' = tasks + 1
        /\ UNCHANGED <<fsys, storeVars, reindexProject, currentHash, code, comments,
                       documents, docIdx, nRuns, pdVars, thVars, srVars, pending>>

\* parseDirectory returns an error (the root cannot be stat'ed, or an I/O error
\* during the walk): indexCodebase returns it
IndexEntryError(input) ==
    LET d == Details(input)
        r == parseDirectory(Tree, d.path, d.exclude \o defaultExcludes, d.excludeFiles)
    IN  /\ pc = "entry"
        /\ IF r.err THEN UNCHANGED nEvents ELSE InjectFault
        /\ projectName' = d.name /\ path' = d.path
        /\ exclude' = d.exclude \o defaultExcludes /\ excludeFiles' = d.excludeFiles
        /\ files' = <<>>
        /\ processedFiles' = 0 /\ failedFiles' = 0 /\ updatedFiles' = 0
        /\ projectConfig' = IF reindexProject # "" THEN loadProjectConfig(reindexProject)
                            ELSE projectConfig
        /\ idx' = 1
        /\ pc' = "idle"
        /\ ret' = "err"
        /\ StartObservation
        /\ taskStarted' = FALSE /\ UNCHANGED tasks
        /\ UNCHANGED <<fsys, storeVars, reindexProject, currentHash, code, comments,
                       documents, docIdx, nRuns, pdVars, thVars, srVars, pending>>

\* the locals of one loop iteration go out of scope
EndIteration == currentHash' = NoHash /\ code' = 0 /\ comments' = 0

\* a per-file error that leaves through "continue" without failedFiles++
FailFileUncounted(hashed) ==
    /\ failedFiles' = failedFiles
    /\ fileErrors' = fileErrors \cup {file}
    /\ InjectFault
    /\ idx' = idx + 1
    /\ pc' = "loop"
    /\ retry' = IF hashed /\ MD5(fsys[file]) = currentHash THEN retry \cup {file} ELSE retry
    /\ EndIteration
    /\ UNCHANGED <<fsys, storeVars, projectConfig, ret, reindexProject, projectName, path,
                   exclude, excludeFiles, files,
                   processedFiles, updatedFiles, documents, docIdx, genCalls, genFailed, seen, hashWrites,
                   rebuilds, modified, hash0, prev, dirty, prevDirty, nRuns, pdVars, thVars, srVars, written, taskStarted, tasks, pending, endRecord>>

\* "failedFiles++; bar.Add(1); continue" of a per-file error; the file joins
\* retry when its content is still the one that was hashed
FailFile(hashed) ==
    /\ failedFiles' = failedFiles + 1
    /\ fileErrors' = fileErrors \cup {file}
    /\ InjectFault
    /\ idx' = idx + 1
    /\ pc' = "loop"
    /\ retry' = IF hashed /\ MD5(fsys[file]) = currentHash THEN retry \cup {file} ELSE retry
    /\ EndIteration
    /\ UNCHANGED <<fsys, storeVars, projectConfig, ret, reindexProject, projectName, path,
                   exclude, excludeFiles, files,
                   processedFiles, updatedFiles, documents, docIdx, genCalls, genFailed, seen, hashWrites,
                   rebuilds, modified, hash0, prev, dirty, prevDirty, nRuns, pdVars, thVars, srVars, written, taskStarted, tasks, pending, endRecord>>

\* calculateMD5Hash returns an error
HashError ==
    /\ pc = "loop" /\ idx <= Len(files)
    /\ FailFile(FALSE)

\* getFileHash returns an error
LookupError ==
    /\ pc = "loop" /\ idx <= Len(files)
    /\ FailFile(FALSE)

\* the file's hash equals the stored one: skipped
SkipUnchanged ==
    /\ pc = "loop" /\ idx <= Len(files)
    /\ Unchanged(getFileHash(file), MD5(fsys[file]))
    /\ idx' = idx + 1
    /\ EndIteration
    /\ seen' = [seen EXCEPT ![file] = fsys[file]]
    /\ UNCHANGED <<fsys, storeVars, projectConfig, pc, ret, reindexProject, projectName,
                   path, exclude, excludeFiles, files, processedFiles,
                   failedFiles, updatedFiles, documents, docIdx, genCalls, genFailed, hashWrites, rebuilds, modified, hash0, prev,
                   dirty, prevDirty, retry, nRuns, nEvents, pdVars, thVars, srVars, auxVars>>

\* the file is New or Modified: updatedFiles++
Classify ==
    /\ pc = "loop" /\ idx <= Len(files)
    /\ ~Unchanged(getFileHash(file), MD5(fsys[file]))
    /\ currentHash' = MD5(fsys[file])
    /\ updatedFiles' = updatedFiles + 1
    /\ modified' = modified \cup {file}
    /\ seen' = [seen EXCEPT ![file] = fsys[file]]
    /\ pc' = "read"
    /\ UNCHANGED <<fsys, storeVars, projectConfig, ret, reindexProject, projectName, path,
                   exclude, excludeFiles, files, idx, code, comments, processedFiles,
                   failedFiles, documents, docIdx, genCalls, genFailed, hashWrites, rebuilds, hash0,
                   prev, dirty, prevDirty, retry, nRuns, nEvents, pdVars, thVars, srVars, auxVars>>

\* os.MkdirAll(filepath.Dir(docPath)) returns an error
MkdirError ==
    /\ pc = "read"
    /\ FailFile(TRUE)

\* os.MkdirAll succeeds and ioutil.ReadFile(file) returns an error
ReadError ==
    /\ pc = "read"
    /\ failedFiles' = failedFiles + 1
    /\ fileErrors' = fileErrors \cup {file}
    /\ InjectFault
    /\ docDirs' = docDirs \cup {projectName}
    /\ idx' = idx + 1
    /\ pc' = "loop"
    /\ retry' = IF MD5(fsys[file]) = currentHash THEN retry \cup {file} ELSE retry
    /\ EndIteration
    /\ UNCHANGED <<fsys, hashDB, docs, cfgDoc, vectorDB, projectConfig, ret, reindexProject,
                   projectName, path, exclude, excludeFiles, files, processedFiles,
                   updatedFiles, documents, docIdx, genCalls, genFailed, seen, hashWrites, rebuilds,
                   modified, hash0, prev, dirty, prevDirty, nRuns, pdVars, thVars, srVars, written, taskStarted, tasks, pending, endRecord>>

\* os.MkdirAll and ioutil.ReadFile(file) succeed: code holds the bytes the file
\* has now
ReadFile ==
    /\ pc = "read"
    /\ code' = fsys[file]
    /\ docDirs' = docDirs \cup {projectName}
    /\ pc' = "gen"
    /\ UNCHANGED <<fsys, hashDB, docs, cfgDoc, vectorDB, projectConfig, ret, reindexProject,
                   projectName, path, exclude, excludeFiles, files, idx, currentHash,
                   comments, processedFiles, failedFiles, updatedFiles, documents, docIdx,
                   obsVars, nRuns, nEvents, pdVars, thVars, srVars, auxVars>>

\* generateComments fails and the iteration goes on to setFileHash instead of
\* leaving through "continue"
GenErrorCommits ==
    /\ pc = "gen"
    /\ InjectFault
    /\ failedFiles' = failedFiles + 1
    /\ fileErrors' = fileErrors \cup {file}
    /\ idx' = idx + 1
    /\ pc' = "loop"
    /\ hashDB' = [hashDB EXCEPT ![file] = currentHash]
    /\ genCalls' = genCalls \cup {[file |-> file, code |-> code]}
    /\ genFailed' = genFailed \cup {file}
    /\ retry' = IF MD5(fsys[file]) = currentHash THEN retry \cup {file} ELSE retry
    /\ EndIteration
    /\ UNCHANGED <<fsys, docs, docDirs, cfgDoc, vectorDB, projectConfig, ret, reindexProject,
                   projectName, path, exclude, excludeFiles, files,
                   processedFiles, updatedFiles, documents, docIdx, seen, hashWrites,
                   rebuilds, modified, hash0, prev, dirty, prevDirty, nRuns, pdVars, thVars, srVars, written, taskStarted, tasks, pending, endRecord>>

\* generateComments(code) returns an error
GenError ==
    /\ pc = "gen"
    /\ InjectFault
    /\ failedFiles' = failedFiles + 1
    /\ fileErrors' = fileErrors \cup {file}
    /\ idx' = idx + 1
    /\ pc' = "loop"
    /\ genCalls' = genCalls \cup {[file |-> file, code |-> code]}
    /\ genFailed' = genFailed \cup {file}
    /\ retry' = IF MD5(fsys[file]) = currentHash THEN retry \cup {file} ELSE retry
    /\ EndIteration
    /\ UNCHANGED <<fsys, storeVars, projectConfig, ret, reindexProject, projectName, path,
                   exclude, excludeFiles, files,
                   processedFiles, updatedFiles, documents, docIdx, seen, hashWrites,
                   rebuilds, modified, hash0, prev, dirty, prevDirty, nRuns, pdVars, thVars, srVars, written, taskStarted, tasks, pending, endRecord>>

\* generateComments(code) returns the documentation text
GenerateComments ==
    /\ pc = "gen"
    /\ comments' = LLM(code)
    /\ genCalls' = genCalls \cup {[file |-> file, code |-> code]}
    /\ pc' = "write"
    /\ UNCHANGED <<fsys, storeVars, projectConfig, ret, reindexProject, projectName, path,
                   exclude, excludeFiles, files, idx, currentHash, code, processedFiles,
                   failedFiles, updatedFiles, documents, docIdx, genFailed, seen, hashWrites, rebuilds,
                   modified, hash0, prev, dirty, prevDirty, retry, nRuns, nEvents, pdVars, thVars, srVars, auxVars>>

\* ioutil.WriteFile(docPath, ...) returns an error
\* the artifact file after WriteFile opened it with O_TRUNC and wrote nothing
Truncated == [header |-> <<>>, body |-> 0]

\* WriteFile returns an error: either the file could not be opened and nothing
\* changed, or it was opened (created, or truncated) and the write failed
WriteError ==
    /\ pc = "write"
    /\ \E opened \in BOOLEAN :
          docs' = IF opened
                  THEN [docs EXCEPT ![projectName] =
                          { a \in @ : a.rel # relPath } \cup
                          { [rel |-> relPath, content |-> Truncated] }]
                  ELSE docs
    /\ failedFiles' = failedFiles + 1
    /\ fileErrors' = fileErrors \cup {file}
    /\ InjectFault
    /\ idx' = idx + 1
    /\ pc' = "loop"
    /\ retry' = IF MD5(fsys[file]) = currentHash THEN retry \cup {file} ELSE retry
    /\ EndIteration
    /\ UNCHANGED <<fsys, hashDB, docDirs, cfgDoc, vectorDB, projectConfig, ret,
                   reindexProject, projectName, path, exclude, excludeFiles, files,
                   processedFiles, updatedFiles, documents, docIdx, genCalls, genFailed,
                   seen, hashWrites, rebuilds, modified, hash0, prev, dirty, prevDirty,
                   nRuns, pdVars, thVars, srVars, written, taskStarted, tasks, pending,
                   endRecord>>

\* ioutil.WriteFile(docPath, "File: relPath\n" + comments) succeeds; processedFiles++
WriteArtifact ==
    /\ pc = "write"
    /\ docs' = [docs EXCEPT ![projectName] = WriteFile(@, relPath, comments)]
    /\ processedFiles' = processedFiles + 1
    /\ written' = written \cup {file}
    /\ pc' = "commit"
    /\ UNCHANGED <<fsys, hashDB, docDirs, cfgDoc, vectorDB, projectConfig, ret,
                   reindexProject, projectName, path, exclude, excludeFiles, files, idx,
                   currentHash, code, comments, failedFiles, updatedFiles, documents,
                   docIdx, obsVars, nRuns, nEvents, pdVars, thVars, srVars, fileErrors, taskStarted, tasks, pending, endRecord>>

\* a setFileHash whose row is never stored
setFileHashLost(db, filePath, hash) == db

\* setFileHash(filePath, hash): INSERT OR REPLACE of the row
setFileHash(db, filePath, hash) == [db EXCEPT ![filePath] = hash]

\* setFileHash(file, currentHash) succeeds; the iteration ends
CommitHash ==
    /\ pc = "commit"
    /\ hashDB' = setFileHash(hashDB, file, currentHash)
    /\ hashWrites' = hashWrites \cup {file}
    /\ retry' = retry \ {file}
    /\ idx' = idx + 1
    /\ pc' = "loop"
    /\ EndIteration
    /\ UNCHANGED <<fsys, docs, docDirs, cfgDoc, vectorDB, projectConfig, ret,
                   reindexProject, projectName, path, exclude, excludeFiles, files,
                   processedFiles, failedFiles, updatedFiles,
                   documents, docIdx, genCalls, genFailed, seen, rebuilds, modified, hash0, prev, dirty,
                   prevDirty, nRuns, nEvents, pdVars, thVars, srVars, auxVars>>

\* setFileHash returns an error: failedFiles++, the iteration ends
CommitError ==
    /\ pc = "commit"
    /\ FailFile(TRUE)

\* a variant of the record below that counts the files sent to generateComments
RunConfigByUpdated ==
    [ ProjectName |-> projectName, ProjectPath |-> path, ExcludeFolders |-> exclude,
      ExcludeFiles |-> excludeFiles, TotalIndexedFiles |-> updatedFiles,
      TotalFailedFiles |-> failedFiles ]

\* the ProjectConfig indexCodebase builds after the loop
RunConfig ==
    [ ProjectName |-> projectName, ProjectPath |-> path, ExcludeFolders |-> exclude,
      ExcludeFiles |-> excludeFiles, TotalIndexedFiles |-> processedFiles,
      TotalFailedFiles |-> failedFiles ]

\* after the loop: ca.projectConfig is set and saveProjectConfig writes it
SaveConfig ==
    /\ pc = "loop" /\ idx > Len(files)
    /\ projectConfig' = RunConfig
    /\ cfgDoc' = [cfgDoc EXCEPT ![projectName] = <<RunConfig>>]
    /\ docDirs' = docDirs \cup {projectName}
    /\ endRecord' = <<RunConfig>>
    /\ pc' = "saved"
    /\ UNCHANGED <<fsys, hashDB, docs, vectorDB, ret, localVars, obsVars, nRuns, nEvents, pdVars, thVars, srVars,
                   written, fileErrors, taskStarted, tasks, pending>>

\* after the loop: saveProjectConfig returns an error, which is only printed
SaveConfigError ==
    /\ pc = "loop" /\ idx > Len(files)
    /\ InjectFault
    /\ projectConfig' = RunConfig
    /\ pc' = "saved"
    /\ UNCHANGED <<fsys, storeVars, ret, localVars, obsVars, nRuns, pdVars, thVars, srVars, auxVars>>

\* indexCodebase returns; the locals are dead
Return(value) ==
    /\ pc' = "idle"
    /\ ret' = value
    /\ documents' = <<>> /\ docIdx' = 1
    /\ UNCHANGED <<reindexProject, projectName, path, exclude, excludeFiles, files, idx,
                   currentHash, code, comments, processedFiles, failedFiles, updatedFiles>>

\* the rebuild guarded by the count of the files written instead
UpdatedByProcessed == processedFiles > 0

\* the test "if updatedFiles > 0" that guards the rebuild of the vector store
Updated == updatedFiles > 0

\* updatedFiles == 0: return nil without touching the vector store
ReturnNoUpdate ==
    /\ pc = "saved"
    /\ ~Updated
    /\ Return("nil")
    /\ UNCHANGED <<fsys, storeVars, projectConfig, obsVars, nRuns, nEvents, pdVars, thVars, srVars, auxVars>>

\* updatedFiles > 0: os.RemoveAll(HashDBPath) and chromem.NewPersistentDB
RemoveStore ==
    /\ pc = "saved"
    /\ Updated
    /\ vectorDB' = [n \in Projects |-> <<>>]
    /\ rebuilds' = rebuilds + 1
    /\ pc' = "create"
    /\ UNCHANGED <<fsys, hashDB, docs, docDirs, cfgDoc, projectConfig, ret, localVars,
                   genCalls, genFailed, seen, hashWrites, modified, hash0, prev, dirty, prevDirty, retry,
                   nRuns, nEvents, pdVars, thVars, srVars, auxVars>>

\* updatedFiles > 0: the store is removed and NewPersistentDB returns an error
RemoveStoreError ==
    /\ pc = "saved"
    /\ InjectFault
    /\ Updated
    /\ vectorDB' = [n \in Projects |-> <<>>]
    /\ rebuilds' = rebuilds + 1
    /\ Return("err")
    /\ UNCHANGED <<fsys, hashDB, docs, docDirs, cfgDoc, projectConfig,
                   genCalls, genFailed, seen, hashWrites, modified, hash0, prev, dirty, prevDirty, retry,
                   nRuns, pdVars, thVars, srVars, auxVars>>

\* ----------------------------------------------------------- createVectorStore
\* string order of two relative paths
PathLess(a, b) == NameLess(a, b)

\* the ".txt" files filepath.Walk finds below projectDocsDir, as documents
RECURSIVE WalkDocs(_, _)
WalkDocs(projectDocs, codebasePath) ==
    IF projectDocs = {} THEN <<>>
    ELSE LET a == CHOOSE x \in projectDocs :
                     \A y \in projectDocs \ {x} : PathLess(x.rel, y.rel)
         IN  <<Document(a, codebasePath)>> \o WalkDocs(projectDocs \ {a}, codebasePath)

\* the walk of createVectorStore and CreateCollection succeed
CreateCollection ==
    /\ pc = "create"
    /\ documents' = WalkDocs(docs[projectName], path)
    /\ docIdx' = 1
    /\ vectorDB' = [vectorDB EXCEPT ![projectName] = <<{}>>]
    /\ pc' = "add"
    /\ UNCHANGED <<fsys, hashDB, docs, docDirs, cfgDoc, projectConfig, ret, reindexProject,
                   projectName, path, exclude, excludeFiles, files, idx, currentHash, code,
                   comments, processedFiles, failedFiles, updatedFiles, obsVars, nRuns,
                   nEvents, pdVars, thVars, srVars, auxVars>>

\* the walk of createVectorStore or CreateCollection returns an error
CreateCollectionError ==
    /\ pc = "create"
    /\ InjectFault
    /\ Return("err")
    /\ UNCHANGED <<fsys, storeVars, projectConfig, obsVars, nRuns, pdVars, thVars, srVars, auxVars>>

\* an AddDocument that replaces the collection by the one document
AddDocOnly(collection, doc) == {doc}

\* collec.AddDocument(doc): the collection maps doc.ID to doc
AddDoc(collection, doc) == { d \in collection : d.ID # doc.ID } \cup {doc}

\* collec.AddDocument succeeds for documents[docIdx]
AddDocument ==
    /\ pc = "add" /\ docIdx <= Len(documents)
    /\ vectorDB' = [vectorDB EXCEPT ![projectName] = <<AddDoc(@[1], documents[docIdx])>>]
    /\ docIdx' = docIdx + 1
    /\ UNCHANGED <<fsys, hashDB, docs, docDirs, cfgDoc, projectConfig, pc, ret,
                   reindexProject, projectName, path, exclude, excludeFiles, files, idx,
                   currentHash, code, comments, processedFiles, failedFiles, updatedFiles,
                   documents, obsVars, nRuns, nEvents, pdVars, thVars, srVars, auxVars>>

\* collec.AddDocument returns an error: createVectorStore returns it
AddDocumentError ==
    /\ pc = "add" /\ docIdx <= Len(documents)
    /\ InjectFault
    /\ Return("err")
    /\ UNCHANGED <<fsys, storeVars, projectConfig, obsVars, nRuns, pdVars, thVars, srVars, auxVars>>

\* every document was added: createVectorStore and indexCodebase return nil
ReturnRebuilt ==
    /\ pc = "add" /\ docIdx > Len(documents)
    /\ Return("nil")
    /\ UNCHANGED <<fsys, storeVars, projectConfig, obsVars, nRuns, nEvents, pdVars, thVars, srVars, auxVars>>

\* --------------------------------------------------------------- searchCodebase
\* what ca.vectorDB.GetCollection(projectName) and collec.Query find
Observed(project) ==
    IF vectorDB[project] = <<>> THEN "absent"
    ELSE IF vectorDB[project][1] = {} THEN "empty"
    ELSE IF { d.ID : d \in vectorDB[project][1] } = { a.rel : a \in docs[project] }
         THEN "full"
    ELSE "partial"

\* the results of searchCodebase: GetCollection returns nil for a collection
\* that does not exist and collec.Query dereferences it; Query on a collection
\* without documents returns an error or no result; otherwise Query and
\* client.Chat each return a value or an error
Outcomes(obs) ==
    IF obs = "absent" THEN {"panic"} ELSE {"ok", "err"}

\* a searchCodebase that waits until no rebuild of the vector store is under way
SearchLocked(project) ==
    /\ pc \notin {"create", "add"}
    /\ nEvents < MaxEvents
    /\ nEvents' = nEvents + 1
    /\ srObs' = Observed(project)
    /\ \E r \in Outcomes(Observed(project)) : srRet' = r
    /\ srAt' = pc
    /\ UNCHANGED <<fsys, storeVars, projectConfig, pc, ret, localVars, obsVars, nRuns,
                   pdVars, thVars, auxVars>>

\* searchCodebase(projectName, query), called by queryHandler at any time or by
\* searchCodebaseCli
Search(project) ==
    /\ nEvents < MaxEvents
    /\ nEvents' = nEvents + 1
    /\ srObs' = Observed(project)
    /\ \E r \in Outcomes(Observed(project)) : srRet' = r
    /\ srAt' = pc
    /\ UNCHANGED <<fsys, storeVars, projectConfig, pc, ret, localVars, obsVars, nRuns,
                   pdVars, thVars, auxVars>>

\* ------------------------------------------------------- the autosave goroutine
\* the records a copy of ca.projectConfig can hold when the copy is taken while
\* indexCodebase assigns the struct after the loop: each of the two, or the
\* name of one with the other fields of the other
Snapshots(old) ==
    IF pc = "loop" /\ idx > Len(files)
    THEN { old, RunConfig,
           [RunConfig EXCEPT !.ProjectName = old.ProjectName],
           [old EXCEPT !.ProjectName = RunConfig.ProjectName] }
    ELSE { old }

\* a tick that waits for a lock the loop holds while it works on a file
AutosaveTickLocked ==
    /\ pc = "loop"
    /\ pending = <<>>
    /\ nEvents < MaxEvents
    /\ nEvents' = nEvents + 1
    /\ projectConfig' = [projectConfig EXCEPT !.TotalIndexedFiles = processedFiles,
                                              !.TotalFailedFiles = failedFiles]
    /\ \E c \in Snapshots(projectConfig') : pending' = <<c>>
    /\ UNCHANGED <<fsys, storeVars, pc, ret, localVars, obsVars, nRuns, pdVars, thVars, srVars,
                   written, fileErrors, taskStarted, tasks, endRecord>>

\* a tick of saveTicker: the goroutine copies the counters into ca.projectConfig
\* and takes the record it is going to save
AutosaveTick ==
    /\ pc \notin {"idle", "entry"}
    /\ pending = <<>>
    /\ nEvents < MaxEvents
    /\ nEvents' = nEvents + 1
    /\ projectConfig' = [projectConfig EXCEPT !.TotalIndexedFiles = processedFiles,
                                              !.TotalFailedFiles = failedFiles]
    /\ \E c \in Snapshots(projectConfig') : pending' = <<c>>
    /\ UNCHANGED <<fsys, storeVars, pc, ret, localVars, obsVars, nRuns, pdVars, thVars, srVars,
                   written, fileErrors, taskStarted, tasks, endRecord>>

\* saveProjectConfig of the goroutine: the record is written, or an error is printed
AutosaveSave(saved) ==
    /\ pending # <<>>
    /\ pending' = <<>>
    /\ IF saved
       THEN /\ cfgDoc' = [cfgDoc EXCEPT ![pending[1].ProjectName] = pending]
            /\ docDirs' = docDirs \cup ({pending[1].ProjectName} \cap Projects)
       ELSE UNCHANGED <<cfgDoc, docDirs>>
    /\ UNCHANGED <<fsys, hashDB, docs, vectorDB, projectConfig, pc, ret, localVars, obsVars,
                   counters, pdVars, thVars, srVars, written, fileErrors, taskStarted, tasks, endRecord>>

\* ----------------------------------------------------------------- environment
\* another process rewrites a source file
Edit(f, c) ==
    /\ nEvents < MaxEvents
    /\ c # fsys[f]
    /\ fsys' = [fsys EXCEPT ![f] = c]
    /\ nEvents' = nEvents + 1
    /\ dirty' = TRUE
    /\ retry' = retry \ {f}
    /\ UNCHANGED <<storeVars, projectConfig, pc, ret, localVars, genCalls, genFailed, seen, hashWrites,
                   rebuilds, modified, hash0, prev, prevDirty, nRuns, pdVars, thVars, srVars, auxVars>>

\* the process is killed during a run and started again: the files and both
\* stores stay as they are, ca.projectConfig is the zero value again
Crash ==
    /\ pc \notin {"idle", "entry"}
    /\ InjectFault
    /\ pc' = "idle"
    /\ ret' = "crash"
    /\ tasks' = 0 /\ pending' = <<>>
    /\ projectConfig' = EmptyConfig
    /\ retry' = IF pc \in {"read", "gen", "write", "commit"}
                   /\ MD5(fsys[file]) = currentHash
                THEN retry \cup {file} ELSE retry
    /\ EndIteration
    /\ documents' = <<>> /\ docIdx' = 1
    /\ idx' = Len(files) + 1
    /\ UNCHANGED <<fsys, storeVars, reindexProject, projectName, path, exclude,
                   excludeFiles, files, processedFiles, failedFiles, updatedFiles, genCalls, genFailed, seen, hashWrites, rebuilds, modified,
                   hash0, prev, dirty, prevDirty, nRuns, pdVars, thVars, srVars, written, fileErrors, taskStarted, endRecord>>

MainNext ==
    \/ CallIndex
    \/ \E s \in Projects, confirm \in BOOLEAN : reindexCodebase(s, confirm)
    \/ \E input \in ProjectInputs : IndexEntry(input)
    \/ \E input \in ProjectInputs : IndexEntryError(input)
    \/ HashError \/ LookupError \/ SkipUnchanged \/ Classify
    \/ MkdirError \/ ReadError \/ ReadFile
    \/ GenError \/ GenerateComments
    \/ WriteError \/ WriteArtifact
    \/ CommitHash \/ CommitError
    \/ SaveConfig \/ SaveConfigError
    \/ ReturnNoUpdate \/ RemoveStore \/ RemoveStoreError
    \/ CreateCollection \/ CreateCollectionError
    \/ AddDocument \/ AddDocumentError \/ ReturnRebuilt
    \/ \E n \in Projects : Search(n)
    \/ AutosaveTick
    \/ \E saved \in BOOLEAN : AutosaveSave(saved)
    \/ \E f \in SourceFiles, c \in Contents : Edit(f, c)
    \/ Crash

Next == MainNext

Spec == Init /\ [][Next]_vars

\* the artifacts, the record and the collection that a complete run of project
\* p over RootA left on disk when every file had content 1
ResumeDocs ==
    { [rel |-> Rel(RootA, f), content |-> Artifact(Rel(RootA, f), LLM(1))] : f \in SourceFiles }

ResumeConfig ==
    [ ProjectName |-> "p", ProjectPath |-> RootA, ExcludeFolders |-> defaultExcludes,
      ExcludeFiles |-> <<>>, TotalIndexedFiles |-> Cardinality(SourceFiles),
      TotalFailedFiles |-> 0 ]

\* the state after NewCodeAssistant in a process started after earlier sessions
\* indexed project p and a project rooted at RootB: the stores hold what those
\* runs saved, the source files may have been edited since, and the session
\* has no project configuration loaded
ResumeInit ==
    /\ fsys \in [SourceFiles -> Contents]
    /\ hashDB = [f \in SourceFiles \cup {FileBZ} |-> MD5(1)]
    /\ docs = [n \in Projects |-> IF n = "p" THEN ResumeDocs ELSE {}]
    /\ docDirs = {"p"}
    /\ cfgDoc = [n \in ProjectNames |-> IF n = "p" THEN <<ResumeConfig>> ELSE <<>>]
    /\ vectorDB = [n \in Projects |->
                     IF n = "p" THEN <<{ Document(a, RootA) : a \in ResumeDocs }>> ELSE <<>>]
    /\ SessionInit
    /\ PdIdle /\ ThIdle

SpecResume == ResumeInit /\ [][Next]_vars

\* ------------------------------------------- parseDirectory on its own inputs
\* files a tree under /r can hold
PdRoot == <<SEP, "r">>
PdUniverse ==
    { PdRoot \o <<SEP, "x", DOT, "go">>,
      PdRoot \o <<SEP, "n", DOT, "md">>,
      PdRoot \o <<SEP, "build", SEP, "x", DOT, "go">>,
      PdRoot \o <<SEP, "build", "x", SEP, "y", DOT, "go">>,
      PdRoot \o <<SEP, "d", SEP, "build", DOT, "go">>,
      PdRoot \o <<SEP, "d", SEP, "y", SEP, "x", DOT, "go">>,
      PdRoot \o <<SEP, DOT, "git", SEP, "x", DOT, "go">> }

\* roots, exclude-directory lists and exclude-file lists a caller can pass
PdRoots == { PdRoot, PdRoot \o <<SEP, "d">>, PdRoot \o <<SEP, "build">> }
PdExcludeDirLists == { <<>>, << <<SEP, "d">> >>, << <<"d", SEP>>, <<"git">> >> }
PdExcludeFileLists == { <<>>, << <<"x", DOT, "go">> >>, << <<"y">>, <<"build", DOT, "go">> >> }

ParseInit ==
    /\ MainInit
    /\ pdTree \in SUBSET PdUniverse
    /\ pdRoot \in PdRoots
    /\ pdExcludeDirs \in PdExcludeDirLists
    /\ pdExcludeFiles \in PdExcludeFileLists
    /\ pdFiles = <<>>
    /\ pdRet = "none"
    /\ ThIdle

\* the result of one call, stored
PdCall(excludeDirs) ==
    LET r == parseDirectory(pdTree, pdRoot, excludeDirs, pdExcludeFiles)
    IN  /\ pdRet = "none"
        /\ pdExcludeDirs' = excludeDirs
        /\ pdFiles' = r.files
        /\ pdRet' = IF r.err THEN "err" ELSE "nil"
        /\ UNCHANGED <<pdTree, pdRoot, pdExcludeFiles>>
        /\ UNCHANGED <<fsys, storeVars, projectConfig, pc, ret, localVars, obsVars, counters, auxVars, srVars, thVars>>

\* parseDirectory called with the lists as given
ParseDirectory == PdCall(pdExcludeDirs)

\* parseDirectory called as indexCodebase calls it: defaultExcludes appended
ParseFromIndex == PdCall(pdExcludeDirs \o defaultExcludes)

ParseNext == ParseDirectory \/ ParseFromIndex

SpecParse == ParseInit /\ [][ParseNext]_vars

\* C10: no path returned by parseDirectory contains an entry of the
\* exclude-directory list as a substring, and no returned path has a base name
\* equal to an entry of the exclude-file list.
C10_ExclusionCorrectness ==
    pdRet = "nil" =>
        \A i \in 1..Len(pdFiles) :
            /\ ~DirExcluded(pdFiles[i], pdExcludeDirs)
            /\ ~FileExcluded(pdFiles[i], pdExcludeFiles)

\* ------------------------------------------- the Thermal Guard of indexCodebase
\* files of the run whose Thermal Guard is observed
ThermalFiles == 10
\* readings one call of CoolDown takes at most
MaxPolls == 3

\* the cool down configuration of indexCodebase, in seconds
maxFileProcessTime == 30
maxTotalProcessTime == 300
coolDownPeriod == 60
\* NewTemperatureMonitor(80, 65, !isLocalHost)
criticalTemp == 80
safeTemp == 65
\* the pause after every tenth processed file
batchSize == 10
batchPause == 10
\* the waits of CoolDown
unavailableWait == 60
baseWait == 2
criticalWait == 5

\* values a GPU or CPU entry of the sensors can parse to, in degrees; 0 stands
\* for an entry that is missing or reads zero
Temps == {0, 60, 80, 90}
\* values of the CPU entry, which is read when the GPU entry gives none
CpuTemps == {0, 80}
\* whole seconds the work on one file takes from the start of its iteration
WorkSeconds == {0, 31}

Min(a, b) == IF a < b THEN a ELSE b

\* a variant of getTemperature that does not test the fallback flag
getTemperatureSensorsOnly ==
    IF gpu # 0 THEN [temp |-> gpu, source |-> "gpu", err |-> FALSE]
    ELSE IF cpu # 0 THEN [temp |-> cpu, source |-> "gpu", err |-> FALSE]
    ELSE [temp |-> 0, source |-> "unknown", err |-> TRUE]

\* tm.getTemperature(): an error in fallback mode, else the first non-zero GPU
\* entry, else the first non-zero CPU entry (tagged "gpu" as well), else an error
getTemperature ==
    IF useFallback THEN [temp |-> 0, source |-> "fallback", err |-> TRUE]
    ELSE IF gpu # 0 THEN [temp |-> gpu, source |-> "gpu", err |-> FALSE]
    ELSE IF cpu # 0 THEN [temp |-> cpu, source |-> "gpu", err |-> FALSE]
    ELSE [temp |-> 0, source |-> "unknown", err |-> TRUE]

\* values of ca.config.OllamaHost: the default and a host of the network
OllamaHosts ==
    { <<"http://", "localhost", ":11434">>, <<"http://", "gpu.example", ":11434">> }

\* isLocalHost of indexCodebase: strings.Contains(ca.config.OllamaHost, "localhost")
isLocalHost(host) == Contains(host, <<"localhost">>)

\* a variant of NewTemperatureMonitor that does not look at isNotLocal
NewTemperatureMonitorSensorsOnly(err, isNotLocal) == err

\* the useFallback flag NewTemperatureMonitor(80, 65, isNotLocal) sets when
\* gosensors.NewFromSystem returns err
NewTemperatureMonitor(err, isNotLocal) == err \/ isNotLocal

\* the value getTemperature selects from a GPU and a CPU entry
Reading(g, c) == IF g # 0 THEN g ELSE c

\* NewTemperatureMonitor followed by the start of the loop, or by a call of
\* CoolDown on the new monitor: fallback when the sensors cannot be read or the
\* model does not run on this host
ThermalInit ==
    /\ MainInit /\ PdIdle
    /\ sensorsErr \in BOOLEAN
    /\ ollamaHost \in OllamaHosts
    /\ useFallback = NewTemperatureMonitor(sensorsErr, ~isLocalHost(ollamaHost))
    /\ gpu \in (IF sensorsErr THEN {0} ELSE Temps)
    /\ cpu \in (IF sensorsErr THEN {0} ELSE CpuTemps)
    /\ hw = Reading(gpu, cpu)
    /\ cdStale = FALSE /\ thPost = <<>>
    /\ thPc = "idle" /\ thRet = "none" /\ thIdx = 0 /\ thProcessed = 0
    /\ fileElapsed = 0 /\ totalElapsed = 0 /\ sinceCoolDown = coolDownPeriod
    /\ thSleeps = {} /\ thDecisions = {} /\ cdReadings = <<>> /\ cdReport = "none"

thRest == <<fsys, storeVars, projectConfig, pc, ret, localVars, obsVars, nRuns, pdVars,
            auxVars, srVars>>

\* d seconds pass: time.Since of fileStartTime, startTotalTime and lastCoolDown
\* grow by d (kept up to the first value beyond the threshold each is compared to)
Elapse(d) ==
    /\ fileElapsed' = Min(fileElapsed + d, maxFileProcessTime + 1)
    /\ totalElapsed' = Min(totalElapsed + d, maxTotalProcessTime + 1)
    /\ sinceCoolDown' = Min(sinceCoolDown + d, coolDownPeriod)

\* time.Sleep(d) at a place of the code
Slept(site, d) == thSleeps' = thSleeps \cup {[site |-> site, len |-> d]}

\* the value of the sensors changes (never, if the sensors are a snapshot taken
\* at construction); a change takes effect at the next measurement, which is
\* made after a processed file or in a round of CoolDown
SensorChange ==
    /\ thPc \in {"post", "cool"}
    /\ nEvents < MaxEvents /\ nEvents' = nEvents + 1
    /\ \E g \in Temps, c \in CpuTemps :
                          /\ (g # gpu \/ c # cpu)
                          /\ gpu' = g /\ cpu' = c /\ hw' = Reading(g, c)
    /\ UNCHANGED <<useFallback, sensorsErr, ollamaHost, thPc, thRet, thIdx, thProcessed, fileElapsed, totalElapsed,
                   sinceCoolDown, thSleeps, thDecisions, cdReadings, cdReport>>
    /\ UNCHANGED <<cdStale, thPost>>
    /\ UNCHANGED thRest

\* the temperature of the hardware changes while CoolDown waits; the entries
\* the monitor holds do not
HardwareChange ==
    /\ thPc = "cool"
    /\ nEvents < MaxEvents /\ nEvents' = nEvents + 1
    /\ \E t \in Temps \ {hw} : hw' = t
    /\ UNCHANGED <<useFallback, sensorsErr, ollamaHost, gpu, cpu, thPc, thRet, thIdx, thProcessed,
                   fileElapsed, totalElapsed, sinceCoolDown, thSleeps, thDecisions, cdReadings,
                   cdReport, cdStale, thPost>>
    /\ UNCHANGED thRest

\* the loop over files begins: startTotalTime is now, lastCoolDown the zero time
StartLoop ==
    /\ thPc = "idle"
    /\ thPc' = "file" /\ thIdx' = 1
    /\ UNCHANGED <<useFallback, sensorsErr, ollamaHost, gpu, cpu, thRet, thProcessed, fileElapsed, totalElapsed,
                   sinceCoolDown, thSleeps, thDecisions, cdReadings, cdReport, nEvents>>
    /\ UNCHANGED <<hw, cdStale, thPost>>
    /\ UNCHANGED thRest

\* the next iteration of the loop, or its end
NextFile ==
    /\ thIdx' = thIdx + 1
    /\ thPc' = IF thIdx < ThermalFiles THEN "file" ELSE "done"

\* tm.CoolDown() is entered; it returns to position r
EnterCoolDown(r) ==
    /\ thPc' = "cool" /\ thRet' = r
    /\ cdReadings' = <<>> /\ cdReport' = "none"

\* the top of an iteration: fileStartTime is taken and the test of the time
\* since the last cooldown is made; within coolDownPeriod of it the loop sleeps
\* for the rest of the period in fallback mode and measures otherwise
BeginFile ==
    /\ thPc = "file"
    /\ fileElapsed' = 0
    /\ IF sinceCoolDown < coolDownPeriod
       THEN IF useFallback
            THEN /\ Slept("remaining", coolDownPeriod - sinceCoolDown)
                 /\ totalElapsed' = Min(totalElapsed + (coolDownPeriod - sinceCoolDown),
                                        maxTotalProcessTime + 1)
                 /\ sinceCoolDown' = coolDownPeriod
                 /\ thDecisions' = {"elapsed"}
                 /\ thPc' = "work"
                 /\ UNCHANGED <<thRet, cdReadings, cdReport>>
            ELSE /\ thDecisions' = {"measure"}
                 /\ IF getTemperature.temp >= criticalTemp
                    THEN EnterCoolDown("work")
                    ELSE thPc' = "work" /\ UNCHANGED <<thRet, cdReadings, cdReport>>
                 /\ UNCHANGED <<thSleeps, totalElapsed, sinceCoolDown>>
       ELSE /\ thDecisions' = IF useFallback THEN {"elapsed"} ELSE {}
            /\ thPc' = "work"
            /\ UNCHANGED <<thRet, cdReadings, cdReport, thSleeps, totalElapsed, sinceCoolDown>>
    /\ UNCHANGED <<useFallback, sensorsErr, ollamaHost, gpu, cpu, thIdx, thProcessed, nEvents>>
    /\ IF thPc' = "cool" THEN cdStale' = FALSE ELSE UNCHANGED cdStale
    /\ UNCHANGED <<hw, thPost>>
    /\ UNCHANGED thRest

\* the file is left before generateComments: an error of Rel, of the hash, of
\* the lookup, of MkdirAll or of ReadFile, or an unchanged file
LeaveFile ==
    /\ thPc = "work"
    /\ NextFile
    /\ UNCHANGED <<useFallback, sensorsErr, ollamaHost, gpu, cpu, thRet, thProcessed, fileElapsed, totalElapsed,
                   sinceCoolDown, thSleeps, thDecisions, cdReadings, cdReport, nEvents>>
    /\ UNCHANGED <<hw, cdStale, thPost>>
    /\ UNCHANGED thRest

\* the file is new or modified and was read: generateComments is called next
ReachGenerate ==
    /\ thPc = "work"
    /\ thPc' = "gen"
    /\ UNCHANGED <<useFallback, sensorsErr, ollamaHost, gpu, cpu, thRet, thIdx, thProcessed, fileElapsed, totalElapsed,
                   sinceCoolDown, thSleeps, thDecisions, cdReadings, cdReport, nEvents>>
    /\ UNCHANGED <<hw, cdStale, thPost>>
    /\ UNCHANGED thRest

\* generateComments or the write of the artifact fails after d seconds: continue
GenerateFails(d) ==
    /\ thPc = "gen"
    /\ Elapse(d)
    /\ NextFile
    /\ UNCHANGED <<useFallback, sensorsErr, ollamaHost, gpu, cpu, thRet, thProcessed, thSleeps, thDecisions,
                   cdReadings, cdReport, nEvents>>
    /\ thPost' = << [ kind |-> "failed",
                      fileOver |-> fileElapsed' > maxFileProcessTime,
                      totalOver |-> totalElapsed' > maxTotalProcessTime,
                      critical |-> getTemperature.temp >= criticalTemp,
                      slept |-> FALSE, measured |-> FALSE, failed |-> FALSE, cooled |-> FALSE ] >>
    /\ UNCHANGED <<hw, cdStale>>
    /\ UNCHANGED thRest

\* a variant of the step below that pauses after every tenth file of the loop
ProcessedPauseByFile(d) ==
    /\ thPc = "gen"
    /\ thProcessed' = thProcessed + 1
    /\ IF thIdx % batchSize = 0
       THEN Elapse(d + batchPause) /\ Slept("batch", batchPause)
       ELSE Elapse(d) /\ UNCHANGED thSleeps
    /\ thPc' = "post"
    /\ UNCHANGED <<useFallback, sensorsErr, ollamaHost, gpu, cpu, thRet, thIdx, thDecisions, cdReadings, cdReport, nEvents>>
    /\ thPost' = <<>>
    /\ UNCHANGED <<hw, cdStale>>
    /\ UNCHANGED thRest

\* the artifact is written after d seconds: processedFiles++, the pause after
\* every tenth processed file, setFileHash
Processed(d) ==
    /\ thPc = "gen"
    /\ thProcessed' = thProcessed + 1
    /\ IF thProcessed' % batchSize = 0
       THEN Elapse(d + batchPause) /\ Slept("batch", batchPause)
       ELSE Elapse(d) /\ UNCHANGED thSleeps
    /\ thPc' = "post"
    /\ UNCHANGED <<useFallback, sensorsErr, ollamaHost, gpu, cpu, thRet, thIdx, thDecisions, cdReadings, cdReport, nEvents>>
    /\ thPost' = <<>>
    /\ UNCHANGED <<hw, cdStale>>
    /\ UNCHANGED thRest

\* a variant of the trigger in which the fallback flag covers both thresholds
PeriodTriggeredInFallback ==
    useFallback /\ (fileElapsed > maxFileProcessTime \/ totalElapsed > maxTotalProcessTime)

\* the trigger of the cooldown period after a processed file
PeriodTriggered ==
    (useFallback /\ fileElapsed > maxFileProcessTime) \/ totalElapsed > maxTotalProcessTime

\* the cooldown period: lastCoolDown is now, the loop sleeps coolDownPeriod and
\* startTotalTime is taken again
CoolDownPeriod ==
    /\ thPc = "post"
    /\ PeriodTriggered
    /\ Slept("period", coolDownPeriod)
    /\ sinceCoolDown' = coolDownPeriod
    /\ totalElapsed' = 0
    /\ fileElapsed' = Min(fileElapsed + coolDownPeriod, maxFileProcessTime + 1)
    /\ thDecisions' = thDecisions \cup {"elapsed"}
    /\ NextFile
    /\ UNCHANGED <<useFallback, sensorsErr, ollamaHost, gpu, cpu, thRet, thProcessed, cdReadings, cdReport, nEvents>>
    /\ thPost' = << [ kind |-> "processed",
                      fileOver |-> fileElapsed > maxFileProcessTime,
                      totalOver |-> totalElapsed > maxTotalProcessTime,
                      critical |-> getTemperature.temp >= criticalTemp,
                      slept |-> TRUE, measured |-> FALSE, failed |-> FALSE, cooled |-> FALSE ] >>
    /\ UNCHANGED <<hw, cdStale>>
    /\ UNCHANGED thRest

\* no cooldown period: the temperature is measured and CoolDown is called for a
\* critical reading
MeasureAfterFile ==
    /\ thPc = "post"
    /\ ~PeriodTriggered
    /\ thDecisions' = thDecisions \cup {"elapsed", "measure"}
    /\ IF getTemperature.temp >= criticalTemp
       THEN EnterCoolDown("next") /\ UNCHANGED thIdx
       ELSE NextFile /\ UNCHANGED <<thRet, cdReadings, cdReport>>
    /\ UNCHANGED <<useFallback, sensorsErr, ollamaHost, gpu, cpu, thProcessed, fileElapsed, totalElapsed,
                   sinceCoolDown, thSleeps, nEvents>>
    /\ thPost' = << [ kind |-> "processed",
                      fileOver |-> fileElapsed > maxFileProcessTime,
                      totalOver |-> totalElapsed > maxTotalProcessTime,
                      critical |-> getTemperature.temp >= criticalTemp,
                      slept |-> FALSE, measured |-> TRUE, failed |-> getTemperature.err,
                      cooled |-> thPc' = "cool" ] >>
    /\ IF thPc' = "cool" THEN cdStale' = FALSE ELSE UNCHANGED cdStale
    /\ UNCHANGED <<hw>>
    /\ UNCHANGED thRest

\* CoolDown is called on the monitor outside the loop
CallCoolDown ==
    /\ thPc = "idle"
    /\ EnterCoolDown("done")
    /\ UNCHANGED <<useFallback, sensorsErr, ollamaHost, gpu, cpu, thIdx, thProcessed, fileElapsed, totalElapsed,
                   sinceCoolDown, thSleeps, thDecisions, nEvents>>
    /\ cdStale' = FALSE
    /\ UNCHANGED <<hw, thPost>>
    /\ UNCHANGED thRest

\* CoolDown returns to its caller
ReturnFromCoolDown ==
    IF thRet = "next" THEN NextFile
    ELSE thPc' = thRet /\ UNCHANGED thIdx

\* a round of CoolDown in which getTemperature fails: sleep 60 s and return
CoolDownUnavailable ==
    /\ thPc = "cool"
    /\ getTemperature.err
    /\ Slept("unavailable", unavailableWait)
    /\ Elapse(unavailableWait)
    /\ cdReport' = "unavailable"
    /\ ReturnFromCoolDown
    /\ UNCHANGED <<useFallback, sensorsErr, ollamaHost, gpu, cpu, thRet, thProcessed, thDecisions, cdReadings, nEvents>>
    /\ UNCHANGED <<hw, cdStale, thPost>>
    /\ UNCHANGED thRest

\* a variant of the round below that returns on every reading
CoolDownNormalizedAny ==
    /\ thPc = "cool"
    /\ ~getTemperature.err
    /\ Len(cdReadings) < MaxPolls
    /\ cdReadings' = Append(cdReadings, getTemperature.temp)
    /\ cdReport' = "normalized"
    /\ ReturnFromCoolDown
    /\ UNCHANGED <<useFallback, sensorsErr, ollamaHost, gpu, cpu, thRet, thProcessed, fileElapsed, totalElapsed,
                   sinceCoolDown, thSleeps, thDecisions, nEvents>>
    /\ cdStale' = (getTemperature.temp # hw)
    /\ UNCHANGED <<hw, thPost>>
    /\ UNCHANGED thRest

\* a round of CoolDown that reads a temperature below safeTemp: "Temperature
\* normalized" is printed and CoolDown returns
CoolDownNormalized ==
    /\ thPc = "cool"
    /\ ~getTemperature.err
    /\ getTemperature.temp < safeTemp
    /\ Len(cdReadings) < MaxPolls
    /\ cdReadings' = Append(cdReadings, getTemperature.temp)
    /\ cdReport' = "normalized"
    /\ ReturnFromCoolDown
    /\ UNCHANGED <<useFallback, sensorsErr, ollamaHost, gpu, cpu, thRet, thProcessed, fileElapsed, totalElapsed,
                   sinceCoolDown, thSleeps, thDecisions, nEvents>>
    /\ cdStale' = (getTemperature.temp # hw)
    /\ UNCHANGED <<hw, thPost>>
    /\ UNCHANGED thRest

\* a round of CoolDown that reads safeTemp or more: sleep 2 s, or 5 s plus the
\* excess over safeTemp for a reading above criticalTemp, and read again
CoolDownWait ==
    /\ thPc = "cool"
    /\ ~getTemperature.err
    /\ getTemperature.temp >= safeTemp
    /\ Len(cdReadings) < MaxPolls
    /\ cdReadings' = Append(cdReadings, getTemperature.temp)
    /\ LET waitSec == IF getTemperature.temp > criticalTemp
                      THEN criticalWait + (getTemperature.temp - safeTemp)
                      ELSE baseWait
       IN  Slept("wait", waitSec) /\ Elapse(waitSec)
    /\ UNCHANGED <<useFallback, sensorsErr, ollamaHost, gpu, cpu, thPc, thRet, thIdx, thProcessed, thDecisions,
                   cdReport, nEvents>>
    /\ cdStale' = (getTemperature.temp # hw)
    /\ UNCHANGED <<hw, thPost>>
    /\ UNCHANGED thRest

ThermalNext ==
    \/ StartLoop \/ CallCoolDown
    \/ BeginFile \/ LeaveFile \/ ReachGenerate
    \/ \E d \in WorkSeconds : GenerateFails(d)
    \/ \E d \in WorkSeconds : Processed(d)
    \/ CoolDownPeriod \/ MeasureAfterFile
    \/ CoolDownUnavailable \/ CoolDownNormalized \/ CoolDownWait
    \/ SensorChange \/ HardwareChange

SpecThermal == ThermalInit /\ [][ThermalNext]_vars

\* ------------------------------------------------------------ the claims
\* the source files the run of indexCodebase discovered
Scanned == { files[k] : k \in 1..Len(files) }

\* the artifact file of source file f in the project of the run, generated
\* from content c
ArtifactOf(f, c) ==
    [rel |-> Rel(path, f), content |-> Artifact(Rel(path, f), LLM(c))]

\* the last started run is a re-run: the run before it was of the same project
\* and path and returned nil with no failed file, and since that run began no
\* source file was edited and no hash row was deleted
CleanRerun ==
    /\ prev.completed /\ prev.failed = 0
    /\ prev.project = projectName /\ prev.path = path
    /\ prev.excludeFiles = excludeFiles
    /\ ~prevDirty /\ ~dirty

\* C1: in a run of indexCodebase that follows a run of the same project which
\* returned nil with no failed file, with no source file changed and no hash
\* row deleted in between, generateComments is never called, no hash row is
\* written and the vector store is not rebuilt.
C1_Idempotence ==
    CleanRerun => genCalls = {} /\ hashWrites = {} /\ rebuilds = 0

\* C1 witness: the second run of a project has returned nil after visiting two
\* files that the first run indexed, and called nothing
C1_Witness ==
    /\ CleanRerun /\ nRuns = 2 /\ pc = "idle" /\ ret = "nil"
    /\ Len(files) = 2
    /\ \A f \in Scanned : seen[f] # 0 /\ hashDB[f] = MD5(fsys[f])
    /\ genCalls = {} /\ hashWrites = {} /\ rebuilds = 0

\* C2: a file whose generateComments call failed is counted as failed and gets
\* no hash row in that run, the loop goes on to the next file and the run is
\* not aborted; and a file that failed stays New or Modified for the next run
\* that visits it, so that run sends it to generateComments again.
C2_GenFailureRetried ==
    /\ pc # "entry" =>
          /\ \A f \in genFailed : f \notin hashWrites /\ hashDB[f] = hash0[f]
          /\ failedFiles >= Cardinality(genFailed)
          /\ \A k \in 1..Len(files) : files[k] \in genFailed => idx > k
          /\ (pc = "idle" /\ ret \in {"nil", "err"}) => idx = Len(files) + 1
    /\ \A f \in retry : ~Unchanged(getFileHash(f), MD5(fsys[f]))

\* C2 witness: the generation failed for the first file, the second file was
\* processed after it, the run returned nil and the first file awaits a retry
C2_Witness ==
    /\ pc = "idle" /\ ret = "nil"
    /\ genFailed = {FileAX} /\ FileAX \in retry
    /\ hashWrites = {FileAY}
    /\ failedFiles = 1 /\ processedFiles = 1

\* C3: a hash row a run has written belongs to a file whose artifact, generated
\* from the code read in this run, is in the project's docs directory; between
\* the write of the artifact and setFileHash the stored hash is still the old
\* one; and a file interrupted there stays New or Modified for the next run.
C3_HashAfterArtifact ==
    /\ pc # "entry" =>
          \A f \in hashWrites :
              \E g \in genCalls : g.file = f /\ ArtifactOf(f, g.code) \in docs[projectName]
    /\ pc = "commit" =>
          /\ ArtifactOf(file, code) \in docs[projectName]
          /\ file \notin hashWrites
          /\ hashDB[file] = hash0[file]
          /\ ~Unchanged(getFileHash(file), currentHash)
    /\ \A f \in retry :
          f \notin hashWrites /\ ~Unchanged(getFileHash(f), MD5(fsys[f]))

\* C3 witness: the process was killed after the artifact of a file was written
\* and before its hash was stored; the file is New or Modified for the next run
C3_Witness ==
    /\ pc = "idle" /\ ret = "crash"
    /\ \E f \in retry :
          /\ ArtifactOf(f, fsys[f]) \in docs[projectName]
          /\ f \notin hashWrites
          /\ ~Unchanged(getFileHash(f), MD5(fsys[f]))

\* C4: when a run returns nil with no failed file and no edit during the run,
\* the files given to generateComments and the files whose hash row was written
\* are exactly the discovered files whose content did not hash to the stored
\* value; their rows hold the new digest and the other rows are untouched;
\* updatedFiles is their number; the store is rebuilt exactly once when there is
\* such a file, and then holds one record for every artifact of the project.
C4_IncrementalRun ==
    (pc = "idle" /\ ret = "nil" /\ failedFiles = 0 /\ ~dirty) =>
        LET changed == { f \in Scanned : hash0[f] # MD5(fsys[f]) }
        IN  /\ { g.file : g \in genCalls } = changed
            /\ hashWrites = changed
            /\ \A f \in changed : hashDB[f] = MD5(fsys[f])
            /\ \A f \in Scanned \ changed : hashDB[f] = hash0[f]
            /\ updatedFiles = Cardinality(changed)
            /\ rebuilds = IF changed = {} THEN 0 ELSE 1
            /\ changed # {} =>
                  /\ vectorDB[projectName] # <<>>
                  /\ { d.ID : d \in vectorDB[projectName][1] } =
                         { a.rel : a \in docs[projectName] }
                  /\ Cardinality(vectorDB[projectName][1]) =
                         Cardinality(docs[projectName])

\* C4 witness: a project indexed by the run before is run again after one of
\* its two files was edited; one file was regenerated and the rebuilt
\* collection holds the records of both
C4_Witness ==
    /\ pc = "idle" /\ ret = "nil" /\ failedFiles = 0 /\ ~dirty
    /\ prev.completed /\ prev.project = projectName /\ prevDirty
    /\ Len(files) = 2 /\ updatedFiles = 1 /\ rebuilds = 1
    /\ \E f \in Scanned :
          /\ hashWrites = {f}
          /\ hash0[f] # NoHash /\ hash0[f] # hashDB[f]
    /\ Cardinality(vectorDB[projectName][1]) = 2

\* C5: a run rebuilds the vector store at most once, only after the loop has
\* visited every discovered file, and a run that returned has rebuilt it if
\* and only if it classified a file as New or Modified, whether or not the
\* generation for that file succeeded.
C5_RebuildTrigger ==
    /\ rebuilds <= 1
    /\ rebuilds = 1 =>
          /\ pc \in {"create", "add", "idle", "entry"}
          /\ idx = Len(files) + 1
          /\ modified # {}
    /\ (pc = "idle" /\ ret \in {"nil", "err"}) => (rebuilds = 1 <=> modified # {})

\* C5 witness: the only file classified as Modified failed in generateComments
\* and the run rebuilt the store all the same
C5_Witness ==
    /\ pc = "idle" /\ ret = "nil"
    /\ rebuilds = 1 /\ hashWrites = {} /\ processedFiles = 0
    /\ Cardinality(modified) = 1 /\ modified = genFailed

\* C6: when a run that rebuilt the vector store returns nil, the collection of
\* the project holds exactly one record for every artifact file in the
\* project's docs directory, with the relative path as id and the text of the
\* artifact as content, and no other record.
C6_CollectionEqualsArtifacts ==
    (pc = "idle" /\ ret = "nil" /\ rebuilds = 1) =>
        /\ vectorDB[projectName] # <<>>
        /\ vectorDB[projectName][1] = { Document(a, path) : a \in docs[projectName] }
        /\ \A a \in docs[projectName] :
              \E d \in vectorDB[projectName][1] : d.ID = a.rel /\ d.Content = a.content

\* C6 witness: a rebuild over two artifact files has returned
C6_Witness ==
    /\ pc = "idle" /\ ret = "nil" /\ rebuilds = 1
    /\ Cardinality(docs[projectName]) = 2
    /\ vectorDB[projectName] # <<>>
    /\ Cardinality(vectorDB[projectName][1]) = 2

\* C7: between runs, for every project that has a configuration and every file
\* parseDirectory discovers for it, a stored hash equal to the digest of the
\* file's content implies that the project's docs directory holds the artifact
\* generated from that content. Stated for behaviours without an edit, an
\* injected error or a kill.
C7_HashMatchImpliesArtifact ==
    (pc = "idle" /\ nEvents = 0) =>
        \A n \in Projects :
            cfgDoc[n] # <<>> =>
                LET c == cfgDoc[n][1]
                    r == parseDirectory(Tree, c.ProjectPath, c.ExcludeFolders, c.ExcludeFiles)
                IN  \A i \in 1..Len(r.files) :
                        LET f == r.files[i]
                            rel == Rel(c.ProjectPath, f)
                        IN  Unchanged(getFileHash(f), MD5(fsys[f])) =>
                                [rel |-> rel, content |-> Artifact(rel, LLM(fsys[f]))]
                                    \in docs[n]

\* C8: a hash row written by a run holds the digest of exactly the bytes that
\* were given to generateComments for the artifact written for that path.
C8_HashOfGeneratedBytes ==
    pc # "entry" =>
        \A f \in hashWrites :
            \A g \in genCalls : g.file = f => hashDB[f] = MD5(g.code)

\* C9: when a discovered file has a stored hash that is the digest of a content
\* other than the one the run hashes, the run classifies the file as Modified;
\* when the run stores a hash for it, that hash is the digest of the content
\* hashed; and a run that returned without a failed file has given the file to
\* generateComments and stored its new hash.
C9_HashSensitivity ==
    \A f \in SourceFiles :
        (/\ seen[f] # 0 /\ hash0[f] # NoHash
         /\ \E c \in Contents : c # seen[f] /\ hash0[f] = MD5(c)) =>
            /\ f \in modified
            /\ (pc # "entry" /\ f \in hashWrites) =>
                  hashDB[f] = MD5(seen[f]) /\ hashDB[f] # hash0[f]
            /\ (pc = "idle" /\ ret \in {"nil", "err"} /\ failedFiles = 0) =>
                  /\ f \in { g.file : g \in genCalls }
                  /\ f \in hashWrites

\* C9 witness: a file whose hash row held the digest of its former content was
\* classified as Modified, regenerated, and its row now holds the new digest
C9_Witness ==
    /\ pc = "idle" /\ ret = "nil"
    /\ \E f \in SourceFiles :
          /\ seen[f] # 0 /\ hash0[f] # NoHash /\ hash0[f] # MD5(seen[f])
          /\ f \in modified /\ f \in hashWrites
          /\ hashDB[f] = MD5(seen[f])

\* C14: when no run of indexCodebase is in progress, no autosave goroutine of
\* an earlier run is still alive: the goroutine a run started has terminated
\* on every return path.
C14_AutosaveTerminates ==
    pc = "idle" => tasks = 0

\* C17: every per-file error is counted in failedFiles; a run that entered the
\* loop visits every discovered file before it goes on to the save after the
\* loop and before it returns; and the record that save writes carries the
\* number of per-file errors of the run as TotalFailedFiles.
C17_FailSoft ==
    /\ failedFiles = Cardinality(fileErrors)
    /\ (\/ pc \in {"saved", "create", "add"}
        \/ (pc = "idle" /\ ret \in {"nil", "err"} /\ files # <<>>)) =>
          /\ idx = Len(files) + 1
          /\ \A f \in Scanned : seen[f] # 0 \/ f \in fileErrors
    /\ endRecord # <<>> =>
          /\ endRecord[1].ProjectName = projectName
          /\ endRecord[1].TotalFailedFiles = Cardinality(fileErrors)

\* C17 witness: the first file ended in an error other than a failed
\* generation, the second file was processed, and the record saved after the
\* loop counts one failed file
C17_Witness ==
    /\ pc = "idle" /\ ret = "nil"
    /\ fileErrors = {FileAX} /\ genFailed = {}
    /\ FileAY \in hashWrites
    /\ endRecord # <<>> /\ endRecord[1].TotalFailedFiles = 1
    /\ cfgDoc[projectName] = endRecord

\* the last call of indexCodebase returned the error of parseDirectory
TraversalFailed == pc = "idle" /\ ret = "err" /\ files = <<>>

\* C19: a run in which parseDirectory returned an error has hashed no file,
\* called generateComments for none, written no hash row and no artifact, has
\* not rebuilt the vector store and has not started the autosave goroutine.
C19_TraversalErrorAborts ==
    TraversalFailed =>
        /\ \A f \in SourceFiles : seen[f] = 0
        /\ genCalls = {} /\ hashWrites = {} /\ written = {} /\ fileErrors = {}
        /\ hashDB = hash0
        /\ rebuilds = 0
        /\ ~taskStarted
        /\ endRecord = <<>>

\* C19 witness: the second run of a project whose files have hash rows ended in
\* the error of parseDirectory
C19_Witness ==
    /\ TraversalFailed /\ nRuns = 2
    /\ projectName \in Projects
    /\ \E f \in SourceFiles : hashDB[f] # NoHash
    /\ ~taskStarted

\* C13: a searchCodebase call on a project whose collection is absent or holds
\* no document returns an error or an answer, and never faults.
C13_SearchWithoutCollection ==
    srObs \in {"absent", "empty"} => srRet \in {"ok", "err"}

\* C15: while a run is past its entry, nothing orders the autosave goroutine
\* against the loop: whenever the loop is about to write ca.projectConfig,
\* processedFiles or failedFiles and the goroutine is waiting for a tick, the
\* tick can be taken, and the goroutine then copies the counters and the record.
C15_AutosaveRace ==
    (/\ pc \in {"loop", "read", "gen", "write", "commit", "saved"}
     /\ pending = <<>> /\ nEvents < MaxEvents) => ENABLED AutosaveTick

\* C15 witness: the goroutine copied the counters before the loop wrote
\* processedFiles, and has not saved its copy yet
C15_Witness ==
    /\ pc = "commit"
    /\ pending # <<>>
    /\ pending[1].TotalIndexedFiles # processedFiles

\* C16: between the removal of the vector store and the end of createVectorStore
\* the collection of the project is absent or holds fewer documents than the
\* project has artifacts, and a searchCodebase call can run in each of these
\* states.
C16_SearchDuringRebuild ==
    /\ pc = "create" => Observed(projectName) = "absent"
    /\ (pc = "add" /\ docIdx <= Len(documents)) =>
          /\ vectorDB[projectName] # <<>>
          /\ Cardinality(vectorDB[projectName][1]) < Cardinality(docs[projectName])
    /\ (pc \in {"create", "add"} /\ nEvents < MaxEvents) =>
          \A n \in Projects : ENABLED Search(n)

\* C16 witness: a query ran while createVectorStore was adding documents and
\* was answered from a collection that held one of the two documents
C16_Witness ==
    /\ srAt = "add" /\ srObs = "partial" /\ srRet = "ok"
    /\ Cardinality(docs[projectName]) = 2

\* the directories the walk of the last parseDirectory call can enter on its way
\* to path p: the root and the directories below it that lie above p
WalkedDirs(p) ==
    { d \in Ancestors(p) : d = pdRoot \/ HasPrefix(d, pdRoot \o <<SEP>>) }

\* p lies below the root of the last parseDirectory call
BelowRoot(p) == HasPrefix(p, pdRoot \o <<SEP>>)

\* p lies in the subtree of a directory whose full path contains an entry of
\* the exclude-directory list of the last call
InPrunedSubtree(p) ==
    \E d \in WalkedDirs(p) :
        \E k \in 1..Len(pdExcludeDirs) : Contains(d, pdExcludeDirs[k])

\* the base name of p equals no exclude-file entry and its extension is allowed
NameAccepted(p) ==
    /\ \A k \in 1..Len(pdExcludeFiles) : Base(p) # pdExcludeFiles[k]
    /\ Ext(p) \in AllowedExt

\* the element of the path to p that is a child of directory d
ChildToward(p, d) == CHOOSE c \in Ancestors(p) \cup {p} : Dir(c) = d

\* p is met before q by a depth-first walk that takes the entries of every
\* directory in the order of their names
WalkedBefore(p, q) ==
    LET common == Ancestors(p) \cap Ancestors(q)
        d == CHOOSE c \in common : \A e \in common : Len(e) <= Len(c)
    IN  NameLess(Base(ChildToward(p, d)), Base(ChildToward(q, d)))

\* C18: a call of parseDirectory that returns no error returns, each once and
\* in the order of the traversal, exactly the files below the root that lie in
\* no subtree of a directory whose full path contains an exclude-directory
\* entry, whose base name equals no exclude-file entry and whose extension is
\* in the allow-list.
C18_ParseDirectoryResult ==
    pdRet = "nil" =>
        /\ { pdFiles[i] : i \in 1..Len(pdFiles) } =
              { f \in pdTree : BelowRoot(f) /\ ~InPrunedSubtree(f) /\ NameAccepted(f) }
        /\ \A i, j \in 1..Len(pdFiles) : i < j => WalkedBefore(pdFiles[i], pdFiles[j])

\* C18 witness: a call returned two files of different directories and left out
\* an accepted name of a pruned subtree, an excluded base name and a file with
\* an extension outside the allow-list
C18_Witness ==
    /\ pdRet = "nil"
    /\ Len(pdFiles) >= 2
    /\ Dir(pdFiles[1]) # Dir(pdFiles[2])
    /\ \E f \in pdTree : BelowRoot(f) /\ InPrunedSubtree(f) /\ NameAccepted(f)
    /\ \E f \in pdTree : BelowRoot(f) /\ ~InPrunedSubtree(f) /\ Ext(f) \notin AllowedExt
    /\ \E f \in pdTree : /\ BelowRoot(f) /\ ~InPrunedSubtree(f)
                         /\ \E k \in 1..Len(pdExcludeFiles) : Base(f) = pdExcludeFiles[k]

\* C11: CoolDown reports "Temperature normalized" only on a reading below
\* safeTemp, and every reading it took before that one was safeTemp or more: a
\* call that reads critical temperatures and then one below safeTemp returns
\* with that reading and not earlier.
C11_NormalizedOnlyBelowSafe ==
    /\ cdReport = "normalized" =>
          /\ cdReadings # <<>>
          /\ cdReadings[Len(cdReadings)] < safeTemp
          /\ \A i \in 1..(Len(cdReadings) - 1) : cdReadings[i] >= safeTemp
    /\ (thPc = "cool" /\ cdReport = "none") =>
          \A i \in 1..Len(cdReadings) : cdReadings[i] >= safeTemp

\* C11 witness: CoolDown, called by the loop, read two critical temperatures,
\* then one below safeTemp, and returned
C11_Witness ==
    /\ cdReport = "normalized"
    /\ thRet = "next"
    /\ Len(cdReadings) = 3
    /\ cdReadings[1] >= criticalTemp /\ cdReadings[2] >= criticalTemp
    /\ cdReadings[3] < safeTemp

\* the sleeps of the Thermal Guard, as opposed to the pause after a batch
CooldownSleeps == { s \in thSleeps : s.site # "batch" }

\* C12: in fallback mode every sleep of the Thermal Guard, in the loop or in
\* CoolDown, lasts coolDownPeriod (60 s), and a measurement gives the same
\* result whatever the sensors read, so that runs that differ in the readings
\* only take the same sleeps.
C12_FallbackDeterminism ==
    useFallback =>
        /\ \A s \in CooldownSleeps : s.len = coolDownPeriod
        /\ getTemperature = [temp |-> 0, source |-> "fallback", err |-> TRUE]

\* C12 witness: a run in fallback mode on a host whose sensors read a critical
\* temperature ended after a cooldown period and a batch pause
C12_Witness ==
    /\ useFallback
    /\ gpu > criticalTemp
    /\ thPc = "done" /\ thIdx > ThermalFiles
    /\ [site |-> "period", len |-> coolDownPeriod] \in thSleeps
    /\ [site |-> "batch", len |-> batchPause] \in thSleeps

\* C20: when generateComments is about to be called for a file, the iteration
\* of that file has taken a Thermal Guard decision: a temperature measurement,
\* or in fallback mode a test of elapsed time.
C20_GenerationGated ==
    thPc = "gen" =>
        \/ "measure" \in thDecisions
        \/ useFallback /\ "elapsed" \in thDecisions

\* C29: the project record has one writer at a time: once the loop has made the
\* save at the end of the run, the autosave goroutine holds no record that it is
\* about to write, so that no autosave write coincides with or follows that save.
C29_SingleWriter ==
    endRecord # <<>> => pending = <<>>

\* C30: the record an autosave is about to write is the record of the project
\* of the run: its name, path and excludes with the current counters, which
\* saveProjectConfig puts into the document of that project.
C30_AutosaveRecord ==
    (pending # <<>> /\ pc \notin {"idle", "entry"}) =>
        /\ pending[1].ProjectName = projectName
        /\ pending[1].ProjectPath = path
        /\ pending[1].ExcludeFolders = exclude
        /\ pending[1].ExcludeFiles = excludeFiles

\* the decision taken after the last file that reached generateComments
PostOf(kind) == thPost # <<>> /\ thPost[1].kind = kind

\* C21: outside fallback mode, after a processed file whose available reading
\* is criticalTemp or more the loop enters CoolDown, and after one whose reading
\* is below criticalTemp the loop neither sleeps nor enters CoolDown.
C21_CriticalEntersCoolDown ==
    (~useFallback /\ PostOf("processed")) =>
        /\ thPost[1].critical => thPost[1].cooled
        /\ ~thPost[1].critical => ~thPost[1].slept /\ ~thPost[1].cooled

\* C22: every reading a round of CoolDown takes is the temperature the hardware
\* has at that moment, so that CoolDown sees the hardware fall below safeTemp.
C22_FreshMeasurement ==
    ~cdStale

\* C23: there is one base wait b such that, for every reading r CoolDown slept
\* on, the sleep lasted b + (r - safeTemp) seconds.
C23_WaitGrowsWithExcess ==
    \E b \in 0..criticalWait :
        \A i \in 1..Len(cdReadings) :
            cdReadings[i] >= safeTemp =>
                [site |-> "wait", len |-> b + (cdReadings[i] - safeTemp)] \in thSleeps

\* C24: in fallback mode, when generateComments is about to be called, the file
\* that reached generateComments before it was followed by the cooldown period
\* if its processing time or the cumulative time was over its cap.
C24_FallbackCapsEveryFile ==
    (useFallback /\ thPc = "gen" /\ thPost # <<>>) =>
        ((thPost[1].fileOver \/ thPost[1].totalOver) => thPost[1].slept)

\* C25: after a processed file the cooldown period is taken exactly when
\* (fallback mode and the file's time is over maxFileProcessTime) or the
\* cumulative time is over maxTotalProcessTime; the temperature is measured
\* exactly when the period is not taken, and the period starts the cumulative
\* time again.
C25_TriggerPrecedence ==
    PostOf("processed") =>
        /\ thPost[1].slept <=> ((useFallback /\ thPost[1].fileOver) \/ thPost[1].totalOver)
        /\ thPost[1].measured <=> ~thPost[1].slept
        /\ (thPost[1].slept /\ thPc \in {"file", "done"}) => totalElapsed = 0

\* C25 witness: outside fallback mode a file ran over the per-file cap without
\* a cooldown period, and a later file met the cumulative cap and was followed
\* by the period without a measurement
C25_Witness ==
    /\ ~useFallback
    /\ PostOf("processed")
    /\ thPost[1].totalOver /\ thPost[1].fileOver
    /\ thPost[1].slept /\ ~thPost[1].measured
    /\ thSleeps = {[site |-> "period", len |-> coolDownPeriod]}

C28_SensorErrorForcesFallback ==
    (PostOf("processed") /\ thPost[1].measured /\ thPost[1].failed) => useFallback

\* C31: the steps of a run from the save of the record to the end of
\* createVectorStore leave the collection of every other project as it was.
C31_RebuildFrame ==
    [][ (pc \in {"saved", "create", "add"}) =>
          (\A n \in Projects \ {projectName} : vectorDB'[n] = vectorDB[n]) ]_vars

\* C32: a run on the unchanged tree that follows a run of the same project
\* whose rebuild returned an error rebuilds the store, so that when it returns
\* nil the collection holds one record per artifact.
C32_RebuildRetried ==
    (/\ pc = "idle" /\ ret = "nil"
     /\ prev.rebuildFailed /\ prev.project = projectName /\ prev.path = path
     /\ prev.excludeFiles = excludeFiles
     /\ ~prevDirty /\ ~dirty) =>
        /\ rebuilds = 1
        /\ vectorDB[projectName] # <<>>
        /\ { d.ID : d \in vectorDB[projectName][1] } = { a.rel : a \in docs[projectName] }

\* C33: in the record saved at the end of a run the processed and the failed
\* count together do not exceed the number of discovered files, and no file
\* whose artifact was written is also counted as failed.
C33_CountedOnce ==
    endRecord # <<>> =>
        /\ endRecord[1].TotalIndexedFiles + endRecord[1].TotalFailedFiles <= Len(files)
        /\ written \cap fileErrors = {}

\* C35: a reindexCodebase call finds the stored configuration of the selected
\* project when indexCodebase starts, and, without an I/O fault, the run it
\* starts is a run of that project that scans the project's root.
C35_ReindexFromStoredConfig ==
    reindexProject # "" =>
        /\ pc = "entry" => cfgDoc[reindexProject] # <<>>
        /\ (pc = "idle" /\ ret \in {"nil", "err"} /\ nEvents = 0) =>
              /\ projectName = reindexProject
              /\ files # <<>>

\* the exclude list the user gave for a project
UserExclude(name) ==
    (CHOOSE input \in ProjectInputs : input.name = name).exclude

\* C36: the exclude_folders list saved at the end of a run of a project is the
\* list saved after its first run: the user's list followed by the default
\* excludes once.
C36_ExcludesStable ==
    (endRecord # <<>> /\ projectName \in Projects) =>
        endRecord[1].ExcludeFolders = UserExclude(projectName) \o defaultExcludes

\* C39: the total_indexed_files value saved at the end of a run is the number
\* of files whose artifact the run wrote, and a run that wrote no artifact and
\* had no failed file saves 0 and 0.
C39_IndexedCountsThisRun ==
    endRecord # <<>> =>
        /\ endRecord[1].TotalIndexedFiles = Cardinality(written)
        /\ (written = {} /\ fileErrors = {}) =>
              endRecord[1].TotalIndexedFiles = 0 /\ endRecord[1].TotalFailedFiles = 0

\* C39 witness: the second run of a project visited two files, skipped the
\* unchanged one, documented the edited one and saved the count 1
C39_Witness ==
    /\ nRuns = 2 /\ pc = "idle" /\ ret = "nil"
    /\ prev.project = projectName /\ prev.completed
    /\ Len(files) = 2 /\ Cardinality(written) = 1 /\ fileErrors = {}
    /\ endRecord # <<>> /\ endRecord[1].TotalIndexedFiles = 1

\* C37: when a run returns nil, every artifact of the project and every
\* record of its collection belongs to a file the run discovered.
C37_NoOrphans ==
    (pc = "idle" /\ ret = "nil" /\ projectName \in Projects) =>
        /\ \A a \in docs[projectName] : Join(path, a.rel) \in Scanned
        /\ vectorDB[projectName] # <<>> =>
              \A d \in vectorDB[projectName][1] : d.file_path \in Scanned

\* C34: a reindexCodebase call changes no hash row except rows of files
\* under the root stored for the selected project.
C34_DeleteOnlySelected ==
    [][ (pc = "idle" /\ pc' = "entry" /\ reindexProject' # "") =>
          (\A f \in DOMAIN hashDB :
              hashDB'[f] # hashDB[f] =>
                  HasPrefix(f, loadProjectConfig(reindexProject').ProjectPath \o <<SEP>>)) ]_vars

\* C38: in the first run of project p of a session, a file whose attempt
\* failed before its artifact was written keeps the artifact and the hash row
\* it had before the run.
C38_FailedAttemptFrame ==
    (nRuns = 1 /\ projectName = "p" /\ reindexProject = "") =>
        \A f \in fileErrors \ written :
            /\ hashDB[f] = hash0[f]
            /\ \E a \in ResumeDocs : a.rel = Rel(RootA, f) /\ a \in docs["p"]

====
